---- MODULE Spec2Model ----
(***************************************************************************)
(* A model of the Telegram message analyzer: the message source            *)
(* (model/message_analyzer.py), the context extender, the participant      *)
(* partitioner, the transcript renderer, the summarization coordinator,   *)
(* the result aggregator and the command (main.py), and the second         *)
(* summarizer entry point (model/ai_models.py).                            *)
(*                                                                         *)
(* Python values are represented as follows.                               *)
(*   str            a sequence of one-character strings                    *)
(*   int or None    a sequence of length <= 1: <<>> is None, <<n>> is n    *)
(*   str or None    a record [k |-> "str" | "None", s |-> the string]      *)
(*   message dict   a record with the keys fetch_messages sets             *)
(***************************************************************************)
EXTENDS Integers, Sequences, FiniteSets, TLC

(***************************************************************************)
(* Bounds of the model.                                                    *)
(***************************************************************************)
\* the largest number of messages the chat history yields in one run
MaxMsgs == 3
\* the largest number of target identifiers given with -u/--users
MaxTargets == 2
\* the longest text placed in a prompt template before it is formatted
MaxInserted == 3

VARIABLES
    pc,                 \* position of analyze_messages
    chat,               \* what client.iter_messages yields, newest first
    target_users,       \* the -u/--users argument
    messages,           \* the list fetch_messages returned
    filtered_messages,
    extended_messages,
    participants,       \* the dict of organize_by_participant, in insertion order
    all_messages_text,  \* the overall transcript
    tasks,              \* one record per process_participant coroutine
    summarize,          \* the summarize argument (not --no-summary)
    overall,            \* the overall summarizer call and what the provider did
    overall_summary,
    participant_summaries,
    completed,          \* the indexes of the finished tasks, in the order they finished
    results,            \* what analyze_messages returned
    client,             \* the Telegram client of the analyzer
    process             \* the command around analyze_messages: chat id, output, exit status

vars == <<pc, chat, target_users, messages, filtered_messages, extended_messages,
          participants, all_messages_text, tasks, summarize, overall,
          overall_summary, participant_summaries, completed, results, client, process>>

(***************************************************************************)
(* Strings.                                                                *)
(***************************************************************************)
Digits == <<"0", "1", "2", "3", "4", "5", "6", "7", "8", "9">>
UpperCase == <<"A", "B", "C", "D", "E", "F", "G", "H", "I", "J", "K", "L", "M",
               "N", "O", "P", "Q", "R", "S", "T", "U", "V", "W", "X", "Y", "Z">>
LowerCase == <<"a", "b", "c", "d", "e", "f", "g", "h", "i", "j", "k", "l", "m",
               "n", "o", "p", "q", "r", "s", "t", "u", "v", "w", "x", "y", "z">>

\* str.lower() on one character
LowerChar(c) ==
    IF \E i \in 1..Len(UpperCase) : UpperCase[i] = c
    THEN LowerCase[CHOOSE i \in 1..Len(UpperCase) : UpperCase[i] = c]
    ELSE c

\* s.lower()
StrLower(s) == [i \in 1..Len(s) |-> LowerChar(s[i])]

\* s.lstrip(ch): every leading ch is removed
RECURSIVE LStrip(_, _)
LStrip(s, ch) ==
    IF s # <<>> /\ Head(s) = ch THEN LStrip(Tail(s), ch) ELSE s

\* s.rstrip(ch): every trailing ch is removed
RECURSIVE RStrip(_, _)
RStrip(s, ch) ==
    IF s # <<>> /\ s[Len(s)] = ch THEN RStrip(SubSeq(s, 1, Len(s) - 1), ch) ELSE s

\* s.strip(ch): leading and trailing ch are removed
Strip(s, ch) == RStrip(LStrip(s, ch), ch)

\* str(n) for an int n >= 0
RECURSIVE StrInt(_)
StrInt(n) ==
    IF n < 10 THEN <<Digits[n + 1]>>
    ELSE StrInt(n \div 10) \o <<Digits[(n % 10) + 1]>>

\* str(x) for x an int or None
StrOpt(x) == IF x = <<>> THEN <<"N", "o", "n", "e">> ELSE StrInt(x[1])

\* x in l, for a list l
InList(x, l) == \E i \in 1..Len(l) : l[i] = x

(***************************************************************************)
(* The message source: Telegram senders and fetch_messages.                *)
(***************************************************************************)
NoStr == <<>>

\* a telethon User
User(id, username, first_name, last_name) ==
    [kind |-> "User", id |-> <<id>>, username |-> username,
     first_name |-> first_name, last_name |-> last_name, title |-> NoStr]

\* a telethon Channel
Channel(id, title) ==
    [kind |-> "Channel", id |-> <<id>>, username |-> NoStr,
     first_name |-> NoStr, last_name |-> NoStr, title |-> title]

\* get_sender() returned None or raised
NoSender ==
    [kind |-> "None", id |-> <<>>, username |-> NoStr,
     first_name |-> NoStr, last_name |-> NoStr, title |-> NoStr]

\* " ".join(parts)
RECURSIVE JoinSpace(_)
JoinSpace(parts) ==
    IF parts = <<>> THEN <<>>
    ELSE IF Len(parts) = 1 THEN parts[1]
    ELSE parts[1] \o <<" ">> \o JoinSpace(Tail(parts))

get_user_display_name(sender) ==
    IF sender.kind = "None" THEN <<"U", "n", "k", "n", "o", "w", "n">>
    ELSE IF sender.kind = "User" THEN
        IF sender.username # NoStr THEN <<"@">> \o sender.username
        ELSE LET full_name ==
                     (IF sender.first_name # NoStr THEN <<sender.first_name>> ELSE <<>>)
                     \o (IF sender.last_name # NoStr THEN <<sender.last_name>> ELSE <<>>)
             IN IF full_name # <<>> THEN JoinSpace(full_name)
                ELSE <<"U", "n", "k", "n", "o", "w", "n", " ", "U", "s", "e", "r">>
    ELSE IF sender.title # NoStr THEN sender.title
         ELSE <<"U", "n", "k", "n", "o", "w", "n", " ",
                "C", "h", "a", "n", "n", "e", "l">>

(***************************************************************************)
(* Dates.  An instant is a number d < 100; its two decimal digits stand    *)
(* for the date part and the time part of the formatted forms, which are   *)
(* fixed-width like the real ones.                                         *)
(***************************************************************************)
\* message.date.isoformat()
isoformat(d) == <<Digits[(d \div 10) + 1], "T", Digits[(d % 10) + 1]>>

\* message.date.strftime("%Y-%m-%d %H:%M:%S")
strftime(d) == <<Digits[(d \div 10) + 1], " ", Digits[(d % 10) + 1]>>

\* the characters of the formatted dates, in code point order
CodeOrder == <<" ", "0", "1", "2", "3", "4", "5", "6", "7", "8", "9", "T">>
ord(c) == CHOOSE i \in 1..Len(CodeOrder) : CodeOrder[i] = c

\* a < b for two str, as Python compares them
RECURSIVE StrLess(_, _)
StrLess(a, b) ==
    IF b = <<>> THEN FALSE
    ELSE IF a = <<>> THEN TRUE
    ELSE IF Head(a) # Head(b) THEN ord(Head(a)) < ord(Head(b))
    ELSE StrLess(Tail(a), Tail(b))

(***************************************************************************)
(* fetch_messages: one message dict per text-bearing message of the chat.  *)
(***************************************************************************)
PyNone == [k |-> "None", s |-> <<>>]
PyStr(s) == [k |-> "str", s |-> s]

UnknownSource == <<"U", "n", "k", "n", "o", "w", "n", " ",
                   "S", "o", "u", "r", "c", "e">>

\* message.fwd_from of a telethon message
NoFwd == [kind |-> "none", from_name |-> NoStr, entity |-> NoSender]
FwdFromName(name) == [kind |-> "from_name", from_name |-> name, entity |-> NoSender]
FwdFromId(entity) == [kind |-> "from_id", from_name |-> NoStr, entity |-> entity]
FwdUnresolvable == [kind |-> "from_id_fails", from_name |-> NoStr, entity |-> NoSender]

\* a telethon message, as iter_messages yields it
TgMessage(id, date, text, sender, reply_to, fwd_from) ==
    [id |-> id, date |-> date, text |-> text, sender |-> sender,
     reply_to |-> reply_to, fwd_from |-> fwd_from]

\* lines 199-214: the forward source label
fwd_from_name(message) ==
    IF message.fwd_from.kind = "none" THEN PyNone
    ELSE IF message.fwd_from.from_name # NoStr THEN PyStr(message.fwd_from.from_name)
    ELSE IF message.fwd_from.kind = "from_id"
         THEN PyStr(get_user_display_name(message.fwd_from.entity))
         ELSE PyStr(UnknownSource)

\* lines 189-233: the message dict of one message
msg_dict(message) ==
    LET is_forwarded == message.fwd_from.kind # "none"
    IN [id              |-> message.id,
        datetime        |-> isoformat(message.date),
        timestamp       |-> strftime(message.date),
        text            |-> message.text,
        sender_name     |-> get_user_display_name(message.sender),
        sender_id       |-> message.sender.id,
        is_reply        |-> message.reply_to # <<>>,
        is_forwarded    |-> is_forwarded,
        forwarded_from  |-> IF is_forwarded THEN fwd_from_name(message) ELSE PyNone,
        reply_to_msg_id |-> message.reply_to]

\* the list fetch_messages returns: messages without text are skipped, and
\* an exception while iterating gives the empty list
fetch_messages(c) ==
    IF c.raises THEN <<>>
    ELSE LET texts == SelectSeq(c.history, LAMBDA m : m.text # NoStr)
         IN [i \in 1..Len(texts) |-> msg_dict(texts[i])]

(***************************************************************************)
(* filter_and_extend_messages                                              *)
(***************************************************************************)
\* a target identifier: a str, or (through the API) an int
TargetStr(s) == [isStr |-> TRUE, s |-> s, n |-> 0]
TargetInt(n) == [isStr |-> FALSE, s |-> <<>>, n |-> n]

\* the value of target_users: None or a list of identifiers
NoTargets == [none |-> TRUE, items |-> <<>>]
Targets(items) == [none |-> FALSE, items |-> items]

\* line 172: u.lower().strip('@') if isinstance(u, str) else str(u)
NormalizeTarget(u) == IF u.isStr THEN Strip(StrLower(u.s), "@") ELSE StrInt(u.n)

\* line 177: msg.get("sender_name", "").lower().strip('@')
NormalizeSenderName(msg) == Strip(StrLower(msg.sender_name), "@")

\* line 178: str(msg.get("sender_id", ""))
SenderIdStr(msg) == StrOpt(msg.sender_id)

\* line 180
IsTargetMessage(msg, target_users_lower) ==
    \/ InList(NormalizeSenderName(msg), target_users_lower)
    \/ InList(SenderIdStr(msg), target_users_lower)

\* lines 185-189: the ids the filtered replies refer to; a reply_to_msg_id
\* of None or 0 is falsy and is left out
ContextMessageIds(filtered) ==
    {filtered[i].reply_to_msg_id[1] :
        i \in {j \in 1..Len(filtered) :
                  /\ filtered[j].is_reply
                  /\ filtered[j].reply_to_msg_id # <<>>
                  /\ filtered[j].reply_to_msg_id[1] # 0}}

\* lines 192-196 with the test "not in filtered_ids" inverted
ContextMessages_Inverted(msgs, filtered) ==
    LET context_message_ids == ContextMessageIds(filtered)
        filtered_ids == {filtered[i].id : i \in 1..Len(filtered)}
    IN SelectSeq(msgs, LAMBDA msg : /\ msg.id \in context_message_ids
                                    /\ msg.id \in filtered_ids)

\* lines 192-196
ContextMessages(msgs, filtered) ==
    LET context_message_ids == ContextMessageIds(filtered)
        filtered_ids == {filtered[i].id : i \in 1..Len(filtered)}
    IN SelectSeq(msgs, LAMBDA msg : /\ msg.id \in context_message_ids
                                    /\ msg.id \notin filtered_ids)

FilteredBy(msgs, tu) ==
    LET target_users_lower ==
            [i \in 1..Len(tu.items) |-> NormalizeTarget(tu.items[i])]
    IN SelectSeq(msgs, LAMBDA msg : IsTargetMessage(msg, target_users_lower))

\* lines 168-199 with the context of the context messages pulled in as well
filter_and_extend_messages_TwoHops(msgs, tu) ==
    IF tu.none \/ tu.items = <<>> THEN [filtered |-> msgs, extended |-> msgs]
    ELSE LET filtered == FilteredBy(msgs, tu)
             one_hop == filtered \o ContextMessages(msgs, filtered)
         IN [filtered |-> filtered,
             extended |-> one_hop \o ContextMessages(msgs, one_hop)]

\* lines 168-199 without the early return of lines 168-169
filter_and_extend_messages_NoEarlyReturn(msgs, tu) ==
    LET filtered == FilteredBy(msgs, tu)
    IN [filtered |-> filtered,
        extended |-> filtered \o ContextMessages(msgs, filtered)]

\* lines 168-199: the pair (filtered_messages, extended_messages)
filter_and_extend_messages(msgs, tu) ==
    IF tu.none \/ tu.items = <<>> THEN [filtered |-> msgs, extended |-> msgs]
    ELSE LET filtered == FilteredBy(msgs, tu)
         IN [filtered |-> filtered,
             extended |-> filtered \o ContextMessages(msgs, filtered)]

(***************************************************************************)
(* organize_by_participant.  A dict is a sequence of [key, value] records  *)
(* in insertion order.                                                     *)
(***************************************************************************)
Keys(d) == [i \in 1..Len(d) |-> d[i].key]

\* lines 213-216 with the name normalized as the filter normalizes it
AddToParticipant_Normalized(d, msg) ==
    LET sender_name == NormalizeSenderName(msg)
    IN IF InList(sender_name, Keys(d))
       THEN [i \in 1..Len(d) |->
                IF d[i].key = sender_name
                THEN [key |-> d[i].key, value |-> Append(d[i].value, msg)]
                ELSE d[i]]
       ELSE Append(d, [key |-> sender_name, value |-> <<msg>>])

\* lines 213-216: one message put into the dict
AddToParticipant(d, msg) ==
    LET sender_name == msg.sender_name
    IN IF InList(sender_name, Keys(d))
       THEN [i \in 1..Len(d) |->
                IF d[i].key = sender_name
                THEN [key |-> d[i].key, value |-> Append(d[i].value, msg)]
                ELSE d[i]]
       ELSE Append(d, [key |-> sender_name, value |-> <<msg>>])

RECURSIVE OrganizeInto(_, _)
OrganizeInto(d, msgs) ==
    IF msgs = <<>> THEN d
    ELSE OrganizeInto(AddToParticipant(d, Head(msgs)), Tail(msgs))

\* lines 211-217
organize_by_participant(msgs) == OrganizeInto(<<>>, msgs)

(***************************************************************************)
(* The transcripts of generate_summaries.                                  *)
(***************************************************************************)
\* one step of a stable sort: msg goes after every element whose key is not greater
RECURSIVE InsertByDatetime(_, _)
InsertByDatetime(sorted, msg) ==
    IF sorted = <<>> THEN <<msg>>
    ELSE IF StrLess(msg.datetime, Head(sorted).datetime)
         THEN <<msg>> \o sorted
         ELSE <<Head(sorted)>> \o InsertByDatetime(Tail(sorted), msg)

RECURSIVE SortInto(_, _)
SortInto(sorted, msgs) ==
    IF msgs = <<>> THEN sorted
    ELSE SortInto(InsertByDatetime(sorted, Head(msgs)), Tail(msgs))

\* the list as it comes, not sorted
SortedByDatetime_Unsorted(msgs) == msgs

\* sorted(msgs, key=lambda m: m["datetime"])
SortedByDatetime(msgs) == SortInto(<<>>, msgs)

\* an f-string field holding a str or None
Formatted(v) == IF v.k = "None" THEN <<"N", "o", "n", "e">> ELSE v.s

\* msg.get("forwarded_from", "Unknown Source"): fetch_messages sets the key
\* in every dict (line 226), so the default is never taken
GetForwardedFrom(msg) == msg.forwarded_from

\* the line of a message not forwarded, for every message
FormatMessage_NeverForwarded(label, msg) ==
    <<"[">> \o msg.timestamp \o <<"]", " ">> \o label \o <<":", " ">> \o msg.text

\* lines 258-262 and 283-287: the line of one message
FormatMessage(label, msg) ==
    IF msg.is_forwarded
    THEN <<"[">> \o msg.timestamp \o <<"]", " ">> \o label
         \o <<" ", "f", "o", "r", "w", "a", "r", "d", "e", "d", " ", "f", "r", "o", "m", " ">>
         \o Formatted(GetForwardedFrom(msg)) \o <<":", " ">> \o msg.text
    ELSE <<"[">> \o msg.timestamp \o <<"]", " ">> \o label \o <<":", " ">> \o msg.text

\* "\n".join(lines)
RECURSIVE JoinLines(_)
JoinLines(lines) ==
    IF lines = <<>> THEN <<>>
    ELSE IF Len(lines) = 1 THEN lines[1]
    ELSE lines[1] \o <<"\n">> \o JoinLines(Tail(lines))

\* lines 255-265: the overall transcript, every line under its sender's name
OverallText(msgs) ==
    LET sorted == SortedByDatetime(msgs)
    IN JoinLines([i \in 1..Len(sorted) |-> FormatMessage(sorted[i].sender_name, sorted[i])])

\* lines 280-290: a participant's transcript, every line under the participant key
ParticipantText(participant, msgs) ==
    LET sorted == SortedByDatetime(msgs)
    IN JoinLines([i \in 1..Len(sorted) |-> FormatMessage(participant, sorted[i])])

(***************************************************************************)
(* generate_summary_with_ollama.  The provider either answers with a text  *)
(* (possibly empty) or raises; a call returns a value or raises.           *)
(***************************************************************************)
ProviderText(s) == [kind |-> "text", s |-> s]
ProviderRaises(s) == [kind |-> "raise", s |-> s]

Returned(v) == [raised |-> FALSE, value |-> v]
Raised(msg) == [raised |-> TRUE, value |-> PyStr(msg)]

\* whether text.format(messages=...) succeeds: "{{" and "}}" are escapes, a
\* field must be {messages}, and a single brace or another field raises
RECURSIVE FormatSucceeds(_)
FormatSucceeds(text) ==
    IF text = <<>> THEN TRUE
    ELSE IF Len(text) >= 2 /\ text[1] = text[2] /\ text[1] \in {"{", "}"}
         THEN FormatSucceeds(SubSeq(text, 3, Len(text)))
    ELSE IF text[1] = "}" THEN FALSE
    ELSE IF text[1] = "{"
         THEN LET field == <<"m", "e", "s", "s", "a", "g", "e", "s", "}">>
              IN /\ Len(text) >= 1 + Len(field)
                 /\ SubSeq(text, 2, 1 + Len(field)) = field
                 /\ FormatSucceeds(SubSeq(text, 2 + Len(field), Len(text)))
    ELSE FormatSucceeds(Tail(text))

\* str(e) of the exception format raises
FormatError == <<"'", "x", "'">>

\* line 74
ErrorPrefix == <<"E", "r", "r", "o", "r", " ", "g", "e", "n", "e", "r", "a", "t", "i", "n", "g", " ",
                 "s", "u", "m", "m", "a", "r", "y", ":", " ">>
ErrorSummary(msg) == PyStr(ErrorPrefix \o msg)

\* line 62: the participant's name is already in the template (line 294);
\* the rest of the template is well formed
PromptFormats(inserted) == FormatSucceeds(inserted)

\* lines 60-74 without the try: a failure leaves the function as an exception
generate_summary_with_ollama_NoTry(inserted, outcome) ==
    IF ~PromptFormats(inserted) THEN Raised(FormatError)
    ELSE IF outcome.kind = "raise" THEN Raised(outcome.s)
    ELSE Returned(PyStr(outcome.s))

\* lines 60-74 with an except branch that only logs, as generate_summary_with_ai has
generate_summary_with_ollama_LogOnly(inserted, outcome) ==
    IF ~PromptFormats(inserted) THEN Returned(PyNone)
    ELSE IF outcome.kind = "raise" THEN Returned(PyNone)
    ELSE Returned(PyStr(outcome.s))

\* lines 60-74: what the call gives, for the text inserted into the template
\* and for what the provider does with the request
generate_summary_with_ollama(inserted, outcome) ==
    IF ~PromptFormats(inserted) THEN Returned(ErrorSummary(FormatError))
    ELSE IF outcome.kind = "raise" THEN Returned(ErrorSummary(outcome.s))
    ELSE Returned(PyStr(outcome.s))

(***************************************************************************)
(* process_participant and the collection of the results.                  *)
(***************************************************************************)
\* line 310: the coroutine of one participant, not yet started
NewTask(participant, msgs) ==
    [participant |-> participant, msgs |-> msgs, state |-> "created",
     text |-> <<>>, outcome |-> ProviderText(<<>>),
     result |-> [participant |-> <<>>, summary |-> PyNone]]

\* lines 303 and 306: the tuple process_participant returns
ProcessParticipantReturn(participant, summary) ==
    [participant |-> participant, summary |-> summary]

\* lines 297-306: the try around the summarizer call
ProcessParticipantResult(participant, call) ==
    IF call.raised
    THEN ProcessParticipantReturn(participant, ErrorSummary(call.value.s))
    ELSE ProcessParticipantReturn(participant, call.value)

\* if summary:
Truthy(summary) == summary.k = "str" /\ summary.s # <<>>

\* participant_summaries[participant] = summary
DictSet(d, key, value) ==
    IF InList(key, Keys(d))
    THEN [i \in 1..Len(d) |-> IF d[i].key = key THEN [key |-> key, value |-> value] ELSE d[i]]
    ELSE Append(d, [key |-> key, value |-> value])

\* lines 319-321 without the test of line 320
RECURSIVE CollectSummaries_NoTest(_, _)
CollectSummaries_NoTest(d, participant_results) ==
    IF participant_results = <<>> THEN d
    ELSE LET r == Head(participant_results)
         IN CollectSummaries_NoTest(DictSet(d, r.participant, r.summary),
                                    Tail(participant_results))

\* lines 319-321
RECURSIVE CollectSummaries(_, _)
CollectSummaries(d, participant_results) ==
    IF participant_results = <<>> THEN d
    ELSE LET r == Head(participant_results)
         IN CollectSummaries(IF Truthy(r.summary) THEN DictSet(d, r.participant, r.summary)
                                                  ELSE d,
                             Tail(participant_results))

\* line 316: asyncio.gather gives the results in the order of its arguments
GatherResults(ts) == [i \in 1..Len(ts) |-> ts[i].result]

(***************************************************************************)
(* get_date_range and the result of analyze_messages.                      *)
(***************************************************************************)
\* lines 229-236
get_date_range(msgs) ==
    IF msgs = <<>> THEN [earliest |-> PyNone, latest |-> PyNone]
    ELSE [earliest |-> PyStr(msgs[Len(msgs)].timestamp),
          latest |-> PyStr(msgs[1].timestamp)]

\* no dict returned yet
NoResults ==
    [keys |-> {}, status |-> "", total |-> 0, filtered |-> 0, with_context |-> 0,
     date_range |-> [earliest |-> PyNone, latest |-> PyNone],
     overall_summary |-> PyNone, by_participant |-> <<>>]

\* lines 112-115: the dict holds the keys status and message only
ErrorResults ==
    [keys |-> {"status", "message"}, status |-> "error",
     total |-> 0, filtered |-> 0, with_context |-> 0,
     date_range |-> [earliest |-> PyNone, latest |-> PyNone],
     overall_summary |-> PyNone, by_participant |-> <<>>]

\* lines 136-150 with the date range taken over the extended list
SuccessResults_RangeOfExtended(msgs, filtered, extended, overall_s, participant_s) ==
    [keys |-> {"status", "chat_title", "target_users", "message_count",
               "date_range", "text_summaries"},
     status |-> "success",
     total |-> Len(msgs), filtered |-> Len(filtered), with_context |-> Len(extended),
     date_range |-> get_date_range(extended),
     overall_summary |-> overall_s, by_participant |-> participant_s]

\* lines 136-150
SuccessResults(msgs, filtered, extended, overall_s, participant_s) ==
    [keys |-> {"status", "chat_title", "target_users", "message_count",
               "date_range", "text_summaries"},
     status |-> "success",
     total |-> Len(msgs), filtered |-> Len(filtered), with_context |-> Len(extended),
     date_range |-> get_date_range(filtered),
     overall_summary |-> overall_s, by_participant |-> participant_s]

(***************************************************************************)
(* The inputs of the filter: senders, chat histories and target lists.     *)
(***************************************************************************)
Range(l) == {l[i] : i \in 1..Len(l)}

\* a user with a username, a user without one, and a sender that cannot be resolved
UserBob == User(1, <<"B", "o", "b">>, <<"B", "o", "b">>, NoStr)
UserBobAt == User(2, NoStr, <<"b", "o", "b", "@">>, NoStr)
FilterSenders == {UserBob, UserBobAt, NoSender}

FilterTargetPool ==
    <<TargetStr(<<"b", "o", "b">>), TargetStr(<<"@", "B", "O", "B">>),
      TargetStr(<<"2">>), TargetStr(<<"N", "o", "n", "e">>),
      TargetStr(<<"U", "n", "k", "n", "o", "w", "n">>), TargetInt(1)>>

\* The values of target_users: None, and the lists of at most MaxTargets
\* identifiers of the pool.  Lines 172-180 only test membership in the
\* list, so one order of each choice of identifiers stands for all.
TargetLists(pool) ==
    {NoTargets} \cup
    UNION {{Targets([i \in 1..n |-> pool[idx[i]]]) :
               idx \in {f \in [1..n -> 1..Len(pool)] :
                           \A i, j \in 1..n : i < j => f[i] < f[j]}} :
             n \in 0..MaxTargets}

\* Histories of n messages, newest first.  Message ids grow with time and
\* start at 2: id 1 is an older message outside the fetched window.  A
\* message replies to an older message or to none.
FilterHistories(n) ==
    LET id(i) == n - i + 2
        replies == {r \in [1..n -> 0..n] : \A i \in 1..n : r[i] < id(i)}
    IN {[i \in 1..n |->
            TgMessage(id(i), id(i), <<"x">>, snd[i],
                      IF r[i] = 0 THEN <<>> ELSE <<r[i]>>, NoFwd)] :
          snd \in [1..n -> FilterSenders], r \in replies}

FilterChats(n) == {[history |-> h, raises |-> FALSE] : h \in FilterHistories(n)}

HasTargets(tu) == ~tu.none /\ tu.items # <<>>

\* main.py lines 345-371: the chat id main resolved, the lines it printed,
\* what it handed to write_output and its exit status (<<>> while it runs);
\* this is the process when analyze_messages is called without main
NoProcess ==
    [args_chat_id |-> PyNone, TELEGRAM_CHANNEL_ID |-> PyNone, chat_id |-> PyNone,
     stdout |-> <<>>, output |-> <<>>, exit_status |-> <<>>]

\* the overall summarizer call: not made, waiting for the provider, or answered
NoCall == [state |-> "none", outcome |-> ProviderText(<<>>)]

(***************************************************************************)
(* SpecFilter: filter_and_extend_messages applied to every fetched list    *)
(* and target list of the bounds.                                          *)
(***************************************************************************)
InitFilter ==
    /\ pc = "filter"
    /\ \E n \in 0..MaxMsgs : chat \in FilterChats(n)
    /\ target_users \in TargetLists(FilterTargetPool)
    /\ messages = fetch_messages(chat)
    /\ filtered_messages = <<>>
    /\ extended_messages = <<>>
    /\ participants = <<>>
    /\ all_messages_text = <<>>
    /\ tasks = <<>>
    /\ summarize = TRUE
    /\ overall = NoCall
    /\ overall_summary = PyNone
    /\ participant_summaries = <<>>
    /\ completed = <<>>
    /\ results = NoResults
    /\ client = "connected"
    /\ process = NoProcess

\* main.py line 118
FilterAndExtend ==
    /\ pc = "filter"
    /\ LET r == filter_and_extend_messages(messages, target_users)
       IN /\ filtered_messages' = r.filtered
          /\ extended_messages' = r.extended
    /\ pc' = "organize"
    /\ UNCHANGED <<chat, target_users, messages, participants, all_messages_text, tasks,
                   summarize, overall, overall_summary, participant_summaries,
                   completed, results, client, process>>

NextFilter == FilterAndExtend

SpecFilter == InitFilter /\ [][NextFilter]_vars

(***************************************************************************)
(* Claims about filter_and_extend_messages, checked under SpecFilter.      *)
(***************************************************************************)
Filtered == pc = "organize"

\* m is the message a reply f refers to
IsParentOf(m, f) == f.is_reply /\ f.reply_to_msg_id = <<m.id>>

\* the position of the message with this id in the fetched list
PositionOf(id) == CHOOSE i \in 1..Len(messages) : messages[i].id = id

\* C1: with a non-empty target list, every filtered message is in extended,
\* every extended message is in the fetched list, and the parent of a
\* filtered reply, when the fetched list has it, is in extended.
C1_ContextSuperset ==
    (Filtered /\ HasTargets(target_users)) =>
        /\ Range(filtered_messages) \subseteq Range(extended_messages)
        /\ Range(extended_messages) \subseteq Range(messages)
        /\ \A f \in Range(filtered_messages) : \A m \in Range(messages) :
               IsParentOf(m, f) => m \in Range(extended_messages)

\* C1 witness: a filtered reply whose parent was not filtered and was pulled in
C1_Witness ==
    /\ Filtered /\ HasTargets(target_users)
    /\ \E f \in Range(filtered_messages) : \E m \in Range(messages) :
           /\ IsParentOf(m, f)
           /\ m \notin Range(filtered_messages)
           /\ m \in Range(extended_messages)

\* the normal form the specification gives an identifier: case-folded, with
\* a leading "@" removed
LeadingAtStripped(s) ==
    LET folded == StrLower(s)
    IN IF folded # <<>> /\ Head(folded) = "@" THEN Tail(folded) ELSE folded

SpecTargetForms(tu) ==
    {IF tu.items[i].isStr THEN LeadingAtStripped(tu.items[i].s)
                          ELSE StrInt(tu.items[i].n) : i \in 1..Len(tu.items)}

\* C2: with a non-empty target list, a message is filtered iff its name,
\* case-folded with a leading "@" removed, or its sender id in string form,
\* is the normal form of a target.
C2_FilterIffNormalizedMatch ==
    (Filtered /\ HasTargets(target_users)) =>
        \A m \in Range(messages) :
            m \in Range(filtered_messages) <=>
                \/ LeadingAtStripped(m.sender_name) \in SpecTargetForms(target_users)
                \/ /\ m.sender_id # <<>>
                   /\ StrInt(m.sender_id[1]) \in SpecTargetForms(target_users)

\* the ids of the one-hop context: parents of filtered replies, not filtered
OneHopContextIds ==
    {m.id : m \in {x \in Range(messages) :
                      /\ x \notin Range(filtered_messages)
                      /\ \E f \in Range(filtered_messages) : IsParentOf(x, f)}}

C4_NoFilterIdentity ==
    (Filtered /\ ~HasTargets(target_users)) =>
        /\ filtered_messages = messages
        /\ extended_messages = messages

\* C4 witness: no targets and a list of several messages went through
C4_Witness ==
    /\ Filtered /\ ~HasTargets(target_users)
    /\ Len(messages) > 1
    /\ extended_messages = messages

(***************************************************************************)
(* Spec: one run of analyze_messages, with the summarizer requests of      *)
(* generate_summaries in flight together.                                  *)
(***************************************************************************)
UserBrace == User(3, NoStr, <<"{", "x", "}">>, NoStr)

\* what a message of the history can be: a text message of one of four
\* senders, or a message without text
RunMessageKinds ==
    {[sender |-> snd, text |-> <<"x">>] : snd \in {UserBob, UserBobAt, NoSender, UserBrace}}
    \cup {[sender |-> UserBob, text |-> NoStr]}

RunHistories(n) ==
    {[i \in 1..n |->
         TgMessage(n - i + 2, n - i + 2, kind[i].text, kind[i].sender, <<>>, NoFwd)] :
       kind \in [1..n -> RunMessageKinds]}

\* the histories, and one chat whose iteration raises
RunChats(n) ==
    {[history |-> h, raises |-> r] : h \in RunHistories(n), r \in {b \in BOOLEAN : b => n = 0}}

RunTargetPool == <<TargetStr(<<"b", "o", "b">>)>>

\* what the provider can do with one request
ProviderOutcomes ==
    {ProviderText(<<"s", "1">>), ProviderText(<<"s", "2">>), ProviderText(<<>>),
     ProviderRaises(<<"b", "o", "o", "m">>)}

Init ==
    /\ pc = "start"
    /\ \E n \in 0..MaxMsgs : chat \in RunChats(n)
    /\ target_users \in TargetLists(RunTargetPool)
    /\ summarize \in BOOLEAN
    /\ messages = <<>>
    /\ filtered_messages = <<>>
    /\ extended_messages = <<>>
    /\ participants = <<>>
    /\ all_messages_text = <<>>
    /\ tasks = <<>>
    /\ overall = NoCall
    /\ overall_summary = PyNone
    /\ participant_summaries = <<>>
    /\ completed = <<>>
    /\ results = NoResults
    /\ client = "new"
    /\ process = NoProcess

\* main.py line 107, message_analyzer.py lines 44-47 and 53-56
StartClient ==
    /\ pc = "start"
    /\ client' = "connected"
    /\ pc' = "fetch"
    /\ UNCHANGED <<chat, target_users, messages, filtered_messages, extended_messages,
                   participants, all_messages_text, tasks, summarize, overall,
                   overall_summary, participant_summaries, completed, results, process>>

\* main.py lines 109-118 without the test of lines 111-115
FetchMessages_NoEmptyCheck ==
    /\ pc = "fetch"
    /\ messages' = fetch_messages(chat)
    /\ results' = results /\ pc' = "filter"
    /\ UNCHANGED <<chat, target_users, filtered_messages, extended_messages,
                   participants, all_messages_text, tasks, summarize, overall,
                   overall_summary, participant_summaries, completed, client, process>>

\* main.py lines 109-115
FetchMessages ==
    /\ pc = "fetch"
    /\ messages' = fetch_messages(chat)
    /\ IF messages' = <<>>
       THEN results' = ErrorResults /\ pc' = "exit"
       ELSE results' = results /\ pc' = "filter"
    /\ UNCHANGED <<chat, target_users, filtered_messages, extended_messages,
                   participants, all_messages_text, tasks, summarize, overall,
                   overall_summary, participant_summaries, completed, client, process>>

\* main.py lines 121-127
OrganizeByParticipant ==
    /\ pc = "organize"
    /\ participants' = organize_by_participant(extended_messages)
    /\ overall_summary' = PyNone
    /\ participant_summaries' = <<>>
    /\ pc' = IF summarize /\ extended_messages # <<>> THEN "summaries" ELSE "compile"
    /\ UNCHANGED <<chat, target_users, messages, filtered_messages, extended_messages,
                   all_messages_text, tasks, summarize, overall, completed, results, client, process>>

\* main.py lines 254-273, up to the request of line 67: nothing is inserted
\* into the overall template before it is formatted
OverallRequest ==
    /\ pc = "summaries"
    /\ all_messages_text' = OverallText(extended_messages)
    /\ overall' = [state |-> "awaiting", outcome |-> ProviderText(<<>>)]
    /\ pc' = "overall"
    /\ UNCHANGED <<chat, target_users, messages, filtered_messages, extended_messages,
                   participants, tasks, summarize, overall_summary,
                   participant_summaries, completed, results, client, process>>

\* main.py lines 67-74 and 269-276: the provider answers the overall request
OverallResponse ==
    /\ pc = "overall"
    /\ \E outcome \in ProviderOutcomes :
         LET call == generate_summary_with_ollama(<<>>, outcome)
         IN /\ overall' = [state |-> "done", outcome |-> outcome]
            /\ IF call.raised
               THEN overall_summary' = overall_summary /\ pc' = "exit_raising"
               ELSE overall_summary' = call.value /\ pc' = "create_tasks"
    /\ UNCHANGED <<chat, target_users, messages, filtered_messages, extended_messages,
                   participants, all_messages_text, tasks, summarize,
                   participant_summaries, completed, results, client, process>>

\* main.py lines 309-316: the coroutines are made and handed to gather
CreateTasks ==
    /\ pc = "create_tasks"
    /\ tasks' = [i \in 1..Len(participants) |->
                    NewTask(participants[i].key, participants[i].value)]
    /\ pc' = "gather"
    /\ UNCHANGED <<chat, target_users, messages, filtered_messages, extended_messages,
                   participants, all_messages_text, summarize, overall, overall_summary,
                   participant_summaries, completed, results, client, process>>

\* lines 309-316 awaiting the coroutines one after the other: a task starts
\* only when every task before it is done
StartTask_Sequential(i) ==
    /\ pc = "gather"
    /\ tasks[i].state = "created"
    /\ \A j \in 1..(i - 1) : tasks[j].state = "done"
    /\ LET t == tasks[i]
           text == ParticipantText(t.participant, t.msgs)
       IN IF PromptFormats(t.participant)
          THEN /\ tasks' = [tasks EXCEPT ![i] = [t EXCEPT !.state = "awaiting",
                                                          !.text = text]]
               /\ completed' = completed
          ELSE /\ tasks' = [tasks EXCEPT ![i] =
                               [t EXCEPT !.state = "done", !.text = text,
                                         !.result = ProcessParticipantResult(
                                              t.participant,
                                              generate_summary_with_ollama(
                                                  t.participant, t.outcome))]]
               /\ completed' = Append(completed, i)
    /\ UNCHANGED <<pc, chat, target_users, messages, filtered_messages, extended_messages,
                   participants, all_messages_text, summarize, overall, overall_summary,
                   participant_summaries, results, client, process>>

\* main.py lines 279-302: the event loop starts the tasks in the order gather
\* got them; a task runs until its request is sent, or to its end when the
\* prompt cannot be formatted
StartTask(i) ==
    /\ pc = "gather"
    /\ tasks[i].state = "created"
    /\ \A j \in 1..(i - 1) : tasks[j].state # "created"
    /\ LET t == tasks[i]
           text == ParticipantText(t.participant, t.msgs)
       IN IF PromptFormats(t.participant)
          THEN /\ tasks' = [tasks EXCEPT ![i] = [t EXCEPT !.state = "awaiting",
                                                          !.text = text]]
               /\ completed' = completed
          ELSE /\ tasks' = [tasks EXCEPT ![i] =
                               [t EXCEPT !.state = "done", !.text = text,
                                         !.result = ProcessParticipantResult(
                                              t.participant,
                                              generate_summary_with_ollama(
                                                  t.participant, t.outcome))]]
               /\ completed' = Append(completed, i)
    /\ UNCHANGED <<pc, chat, target_users, messages, filtered_messages, extended_messages,
                   participants, all_messages_text, summarize, overall, overall_summary,
                   participant_summaries, results, client, process>>

\* main.py lines 67-74 and 297-306: the provider answers the request of a task
CompleteTask(i) ==
    /\ pc = "gather"
    /\ tasks[i].state = "awaiting"
    /\ \E outcome \in ProviderOutcomes :
         tasks' = [tasks EXCEPT ![i] =
                      [tasks[i] EXCEPT !.state = "done", !.outcome = outcome,
                                       !.result = ProcessParticipantResult(
                                            tasks[i].participant,
                                            generate_summary_with_ollama(
                                                tasks[i].participant, outcome))]]
    /\ completed' = Append(completed, i)
    /\ UNCHANGED <<pc, chat, target_users, messages, filtered_messages, extended_messages,
                   participants, all_messages_text, summarize, overall, overall_summary,
                   participant_summaries, results, client, process>>

\* main.py lines 316-323: gather returns when every task is done
CollectResults ==
    /\ pc = "gather"
    /\ \A i \in 1..Len(tasks) : tasks[i].state = "done"
    /\ participant_summaries' = CollectSummaries(<<>>, GatherResults(tasks))
    /\ pc' = "compile"
    /\ UNCHANGED <<chat, target_users, messages, filtered_messages, extended_messages,
                   participants, all_messages_text, tasks, summarize, overall,
                   overall_summary, completed, results, client, process>>

\* main.py lines 136-152
CompileResults ==
    /\ pc = "compile"
    /\ results' = SuccessResults(messages, filtered_messages, extended_messages,
                                 overall_summary, participant_summaries)
    /\ pc' = "exit"
    /\ UNCHANGED <<chat, target_users, messages, filtered_messages, extended_messages,
                   participants, all_messages_text, tasks, summarize, overall,
                   overall_summary, participant_summaries, completed, client, process>>

\* a disconnect placed at the end of the block instead of in __aexit__: it is
\* skipped when an exception leaves the block
ExitAnalyzer_NoAexit ==
    /\ pc \in {"exit", "exit_raising"}
    /\ client' = IF pc = "exit" THEN "disconnected" ELSE client
    /\ pc' = IF pc = "exit" THEN "returned" ELSE "raised"
    /\ UNCHANGED <<chat, target_users, messages, filtered_messages, extended_messages,
                   participants, all_messages_text, tasks, summarize, overall,
                   overall_summary, participant_summaries, completed, results, process>>

\* main.py line 107, message_analyzer.py lines 49-51 and 67-71: leaving the
\* async with block, by a return or by an exception
ExitAnalyzer ==
    /\ pc \in {"exit", "exit_raising"}
    /\ client' = "disconnected"
    /\ pc' = IF pc = "exit" THEN "returned" ELSE "raised"
    /\ UNCHANGED <<chat, target_users, messages, filtered_messages, extended_messages,
                   participants, all_messages_text, tasks, summarize, overall,
                   overall_summary, participant_summaries, completed, results, process>>

Next ==
    \/ StartClient
    \/ FetchMessages
    \/ FilterAndExtend
    \/ OrganizeByParticipant
    \/ OverallRequest
    \/ OverallResponse
    \/ CreateTasks
    \/ \E i \in 1..Len(tasks) : StartTask(i)
    \/ \E i \in 1..Len(tasks) : CompleteTask(i)
    \/ CollectResults
    \/ CompileResults
    \/ ExitAnalyzer

Spec == Init /\ [][Next]_vars

(***************************************************************************)
(* Claims about generate_summaries, checked under Spec.                    *)
(***************************************************************************)
\* generate_summaries has returned its pair
SummariesReturned == pc \in {"compile", "exit", "returned"} /\ tasks # <<>>

\* an exception is leaving, or has left, analyze_messages
Raising == pc \in {"exit_raising", "raised"}

\* the summarizer call of task i failed: its prompt could not be formatted,
\* or the provider raised
TaskFailed(i) == ~PromptFormats(tasks[i].participant) \/ tasks[i].outcome.kind = "raise"

OverallFailed == overall.state = "done" /\ overall.outcome.kind = "raise"

IsErrorMarker(v) ==
    /\ v.k = "str"
    /\ Len(v.s) >= Len(ErrorPrefix)
    /\ SubSeq(v.s, 1, Len(ErrorPrefix)) = ErrorPrefix

KeySet(d) == {d[i].key : i \in 1..Len(d)}
ValueOf(d, key) == d[CHOOSE i \in 1..Len(d) : d[i].key = key].value

\* C5: generate_summaries does not raise; when it has returned, every task
\* is done, the entry of every participant whose call failed is an error
\* marker, and the entry of every participant whose call gave a text is
\* that text, whatever subset of the calls failed.
C5_FailureIsolation ==
    /\ ~Raising
    /\ SummariesReturned =>
           \A i \in 1..Len(tasks) :
               /\ tasks[i].state = "done"
               /\ TaskFailed(i) =>
                      /\ tasks[i].participant \in KeySet(participant_summaries)
                      /\ IsErrorMarker(ValueOf(participant_summaries, tasks[i].participant))
               /\ (~TaskFailed(i) /\ tasks[i].outcome.s # <<>>) =>
                      /\ tasks[i].participant \in KeySet(participant_summaries)
                      /\ ValueOf(participant_summaries, tasks[i].participant)
                             = PyStr(tasks[i].outcome.s)

\* C5 witness: three participants, the provider raised for the second one
\* only, and analyze_messages returned the three entries
C5_Witness ==
    /\ pc = "returned"
    /\ Len(tasks) = 3
    /\ ~TaskFailed(1) /\ tasks[2].outcome.kind = "raise" /\ ~TaskFailed(3)
    /\ Len(results.by_participant) = 3
    /\ IsErrorMarker(ValueOf(results.by_participant, tasks[2].participant))

\* C6: when the overall call failed, overall_summary is an error marker,
\* no exception leaves, and analyze_messages returns status "success" with
\* one finished task per participant and their summaries collected.
C6_OverallFailureAbsorbed ==
    OverallFailed =>
        /\ ~Raising
        /\ IsErrorMarker(overall_summary)
        /\ pc = "returned" =>
               /\ results.status = "success"
               /\ IsErrorMarker(results.overall_summary)
               /\ Len(tasks) = Len(participants)
               /\ \A i \in 1..Len(tasks) :
                      /\ tasks[i].state = "done"
                      /\ tasks[i].participant = participants[i].key
                      /\ tasks[i].outcome.kind = "text" /\ tasks[i].outcome.s # <<>>
                           => ValueOf(results.by_participant, tasks[i].participant)
                                  = PyStr(tasks[i].outcome.s)

\* C6 witness: the overall call failed, two participants were summarized,
\* and the run returned success
C6_Witness ==
    /\ pc = "returned"
    /\ OverallFailed
    /\ results.status = "success"
    /\ Len(results.by_participant) >= 2

\* C7 as claimed: the keys of the mapping are exactly the participant keys.
C7_KeysExactlyParticipants ==
    SummariesReturned => KeySet(participant_summaries) = KeySet(participants)

\* C7 as amended: the keys of the mapping are exactly the keys of the
\* participants whose call gave a non-empty string (a text or an error
\* marker); a participant whose call gave the empty text has no entry.
C7_KeysAreNonEmptySummaries ==
    SummariesReturned =>
        KeySet(participant_summaries) =
            {participants[i].key :
                i \in {j \in 1..Len(participants) :
                          TaskFailed(j) \/ tasks[j].outcome.s # <<>>}}

\* C7 witness: of two participants one got the empty text and has no entry
C7_Witness ==
    /\ pc = "returned"
    /\ Len(participants) >= 2
    /\ \E i, j \in 1..Len(tasks) :
           /\ ~TaskFailed(i) /\ tasks[i].outcome.s = <<>>
           /\ tasks[i].participant \notin KeySet(results.by_participant)
           /\ tasks[j].participant \in KeySet(results.by_participant)

\* C8: starting a task never waits for a request in flight; generate_summaries
\* returns only when every task is done; and the mapping holds, under each
\* key, the summary that participant's own coroutine returned, whatever the
\* order in which the requests were answered.
C8_ConcurrentOrderIndependent ==
    /\ (pc = "gather" /\ \E i \in 1..Len(tasks) : tasks[i].state = "created")
           => ENABLED (\E i \in 1..Len(tasks) : StartTask(i))
    /\ SummariesReturned =>
           /\ \A i \in 1..Len(tasks) : tasks[i].state = "done"
           /\ Range(completed) = 1..Len(tasks)
           /\ Range(participant_summaries) =
                  {[key |-> participants[i].key, value |-> tasks[i].result.summary] :
                      i \in {j \in 1..Len(tasks) : Truthy(tasks[j].result.summary)}}

\* C8 witness: three requests were answered in the reverse of the order they
\* were sent in, so all three were in flight together, and the run returned
C8_Witness ==
    /\ pc = "returned"
    /\ completed = <<3, 2, 1>>
    /\ Len(results.by_participant) = 3

(***************************************************************************)
(* SpecRender: the transcripts of generate_summaries for the extended      *)
(* lists and participant groups of histories with equal and different      *)
(* dates, forwards and replies.                                            *)
(***************************************************************************)
ChannelNews == Channel(4, <<"N", "e", "w", "s">>)

RenderSenders == {UserBob, NoSender}

RenderForwards ==
    {NoFwd, FwdFromName(<<"A", "l">>), FwdFromId(ChannelNews), FwdUnresolvable}

\* two instants that differ in the date part and in the time part
Instants == {9, 10}

\* Histories of n messages, newest first: the dates do not grow along the
\* list, two messages can have the same date, and the newest message can be
\* a reply to the message just before it in time.
RenderHistories(n) ==
    LET id(i) == n - i + 2
        dates == {d \in [1..n -> Instants] : \A i \in 1..(n - 1) : d[i] >= d[i + 1]}
    IN {[i \in 1..n |->
            TgMessage(id(i), d[i], <<"m", Digits[id(i) + 1]>>, snd[i],
                      IF i = 1 /\ newest_replies THEN <<id(i) - 1>> ELSE <<>>, fwd[i])] :
          d \in dates, snd \in [1..n -> RenderSenders],
          fwd \in [1..n -> RenderForwards], newest_replies \in BOOLEAN}

RenderChats(n) == {[history |-> h, raises |-> FALSE] : h \in RenderHistories(n)}

InitRender ==
    /\ pc = "render"
    /\ \E n \in 0..MaxMsgs : chat \in RenderChats(n)
    /\ target_users \in TargetLists(RunTargetPool)
    /\ messages = fetch_messages(chat)
    /\ LET r == filter_and_extend_messages(messages, target_users)
       IN /\ filtered_messages = r.filtered
          /\ extended_messages = r.extended
          /\ participants = organize_by_participant(r.extended)
    /\ all_messages_text = <<>>
    /\ tasks = <<>>
    /\ summarize = TRUE
    /\ overall = NoCall
    /\ overall_summary = PyNone
    /\ participant_summaries = <<>>
    /\ completed = <<>>
    /\ results = NoResults
    /\ client = "connected"
    /\ process = NoProcess

\* main.py lines 254-265
RenderOverall ==
    /\ pc = "render"
    /\ all_messages_text' = OverallText(extended_messages)
    /\ pc' = "render_participants"
    /\ UNCHANGED <<chat, target_users, messages, filtered_messages, extended_messages,
                   participants, tasks, summarize, overall, overall_summary,
                   participant_summaries, completed, results, client, process>>

\* main.py lines 279-290, for every participant
RenderParticipants ==
    /\ pc = "render_participants"
    /\ tasks' = [i \in 1..Len(participants) |->
                    [NewTask(participants[i].key, participants[i].value)
                        EXCEPT !.text = ParticipantText(participants[i].key,
                                                        participants[i].value)]]
    /\ pc' = "rendered"
    /\ UNCHANGED <<chat, target_users, messages, filtered_messages, extended_messages,
                   participants, all_messages_text, summarize, overall, overall_summary,
                   participant_summaries, completed, results, client, process>>

NextRender == RenderOverall \/ RenderParticipants

SpecRender == InitRender /\ [][NextRender]_vars

(***************************************************************************)
(* Claims about the transcripts, checked under SpecRender.                 *)
(***************************************************************************)
Rendered == pc = "rendered"

\* the lines of a text: the parts between its newline characters
LinesOf(text) ==
    IF text = <<>> THEN <<>>
    ELSE LET breaks == {i \in 1..Len(text) : text[i] = "\n"}
             break(k) == CHOOSE i \in breaks : Cardinality({j \in breaks : j < i}) = k - 1
             first(k) == IF k = 1 THEN 1 ELSE break(k - 1) + 1
             last(k) == IF k = Cardinality(breaks) + 1 THEN Len(text) ELSE break(k) - 1
         IN [k \in 1..(Cardinality(breaks) + 1) |-> SubSeq(text, first(k), last(k))]

\* the line the specification gives a message under a label
SpecLine(label, m) ==
    <<"[">> \o m.timestamp \o <<"]", " ">> \o label
    \o (IF m.is_forwarded
        THEN <<" ", "f", "o", "r", "w", "a", "r", "d", "e", "d", " ", "f", "r", "o", "m", " ">>
             \o (IF m.forwarded_from.k = "None" THEN UnknownSource ELSE m.forwarded_from.s)
        ELSE <<>>)
    \o <<":", " ">> \o m.text

DateOf(m) ==
    LET k == CHOOSE k \in 1..Len(chat.history) : chat.history[k].id = m.id
    IN chat.history[k].date

\* whether the text has one line per message of the list, the lines of
\* earlier messages first and those of equal date in the order of the list
OneLineEachInDateOrder(text, label, msgs) ==
    LET lines == LinesOf(text)
        pos(i) == CHOOSE k \in 1..Len(lines) : lines[k] = SpecLine(label[i], msgs[i])
    IN /\ Len(lines) = Len(msgs)
       /\ \A i \in 1..Len(msgs) :
              \E k \in 1..Len(lines) : lines[k] = SpecLine(label[i], msgs[i])
       /\ \A i, j \in 1..Len(msgs) :
              (\/ DateOf(msgs[i]) < DateOf(msgs[j])
               \/ DateOf(msgs[i]) = DateOf(msgs[j]) /\ i < j) => pos(i) < pos(j)

\* C10: the overall transcript and every participant's transcript have one
\* line per message, in ascending order of date whatever the order of the
\* input, equal dates in input order; no message gives the empty text.
C10_TranscriptSortedStable ==
    Rendered =>
        /\ OneLineEachInDateOrder(
               all_messages_text,
               [i \in 1..Len(extended_messages) |-> extended_messages[i].sender_name],
               extended_messages)
        /\ \A t \in 1..Len(tasks) :
               OneLineEachInDateOrder(
                   tasks[t].text,
                   [i \in 1..Len(tasks[t].msgs) |-> tasks[t].participant],
                   tasks[t].msgs)
        /\ extended_messages = <<>> => all_messages_text = <<>>

\* C10 witness: an extended list that is neither ascending nor descending
\* in date and has two messages of one date was rendered
C10_Witness ==
    /\ Rendered
    /\ Len(extended_messages) >= 3
    /\ \E i, j \in 1..Len(extended_messages) :
           i < j /\ DateOf(extended_messages[i]) < DateOf(extended_messages[j])
    /\ \E i, j \in 1..Len(extended_messages) :
           i < j /\ DateOf(extended_messages[i]) > DateOf(extended_messages[j])
    /\ \E i, j \in 1..Len(extended_messages) :
           i < j /\ DateOf(extended_messages[i]) = DateOf(extended_messages[j])
    /\ Len(LinesOf(all_messages_text)) = Len(extended_messages)

(***************************************************************************)
(* SpecAggregate: the run of analyze_messages after the fetch when no      *)
(* summary is asked for (--no-summary): filter, organize, compile, leave.   *)
(* The histories are newest first as iter_messages yields them; two        *)
(* messages can have the same date and a message can reply to any older    *)
(* message, inside or outside the fetched window.                          *)
(***************************************************************************)
DatedHistories(n) ==
    LET id(i) == n - i + 2
        dates == {d \in [1..n -> Instants] : \A i \in 1..(n - 1) : d[i] >= d[i + 1]}
        replies == {r \in [1..n -> 0..n] : \A i \in 1..n : r[i] < id(i)}
    IN {[i \in 1..n |->
            TgMessage(id(i), d[i], <<"x">>, snd[i],
                      IF r[i] = 0 THEN <<>> ELSE <<r[i]>>, NoFwd)] :
          d \in dates, snd \in [1..n -> FilterSenders], r \in replies}

DatedChats(n) == {[history |-> h, raises |-> FALSE] : h \in DatedHistories(n)}

InitAggregate ==
    /\ pc = "filter"
    /\ \E n \in 1..MaxMsgs : chat \in DatedChats(n)
    /\ messages = fetch_messages(chat)
    /\ target_users \in TargetLists(RunTargetPool)
    /\ filtered_messages = <<>>
    /\ extended_messages = <<>>
    /\ participants = <<>>
    /\ all_messages_text = <<>>
    /\ tasks = <<>>
    /\ summarize = FALSE
    /\ overall = NoCall
    /\ overall_summary = PyNone
    /\ participant_summaries = <<>>
    /\ completed = <<>>
    /\ results = NoResults
    /\ client = "connected"
    /\ process = NoProcess

NextAggregate ==
    \/ FilterAndExtend
    \/ OrganizeByParticipant
    \/ CompileResults
    \/ ExitAnalyzer

SpecAggregate == InitAggregate /\ [][NextAggregate]_vars

(***************************************************************************)
(* Claims about the aggregated result, checked under SpecAggregate.        *)
(***************************************************************************)
\* analyze_messages has built its success dict
Compiled == pc \in {"exit", "returned"} /\ results.status = "success"

\* the dates of the messages of a list
DatesOf(msgs) == {DateOf(m) : m \in Range(msgs)}
Newest(ds) == CHOOSE d \in ds : \A e \in ds : e <= d
Oldest(ds) == CHOOSE d \in ds : \A e \in ds : d <= e

\* C11: the date range of the result is taken over the filtered messages:
\* latest is the timestamp of the newest filtered message and earliest the
\* timestamp of the oldest one, which are the first and the last element of
\* the filtered list as received; earliest is not later than latest; both
\* are None when no message is filtered.
C11_DateRangeOverFiltered ==
    Compiled =>
        IF filtered_messages = <<>>
        THEN results.date_range = [earliest |-> PyNone, latest |-> PyNone]
        ELSE /\ results.date_range.latest =
                    PyStr(strftime(Newest(DatesOf(filtered_messages))))
             /\ results.date_range.earliest =
                    PyStr(strftime(Oldest(DatesOf(filtered_messages))))
             /\ results.date_range.latest = PyStr(filtered_messages[1].timestamp)
             /\ results.date_range.earliest =
                    PyStr(filtered_messages[Len(filtered_messages)].timestamp)
             /\ ~StrLess(results.date_range.latest.s, results.date_range.earliest.s)

\* C11 witness: a result whose filtered messages span two dates and whose
\* extended list ends with a context message of another date than the
\* oldest filtered one
C11_Witness ==
    /\ Compiled
    /\ Len(filtered_messages) >= 2
    /\ results.date_range.earliest # results.date_range.latest
    /\ Len(extended_messages) > Len(filtered_messages)
    /\ extended_messages[Len(extended_messages)].timestamp
           # filtered_messages[Len(filtered_messages)].timestamp
    /\ results.date_range.earliest.s = filtered_messages[Len(filtered_messages)].timestamp

(***************************************************************************)
(* Claims about the run of analyze_messages, checked under Spec.           *)
(***************************************************************************)
\* the message source gives this run no message (the history is empty, has
\* no message with text, or its iteration raises): what the fetch will
\* return before line 109, what it returned after it
NoMessagesFound ==
    IF pc \in {"main", "start", "fetch"} THEN fetch_messages(chat) = <<>>
    ELSE messages = <<>>

\* the positions of a run before the filter step
BeforeFilter == {"start", "fetch", "exit", "returned"}

\* C12: when the message source yields no message the run goes from the
\* fetch straight to its exit: it never raises, the filter step and the
\* summarizer requests are never reached, and what it returns has the error
\* status and holds no counts, no date range and no summaries.
C12_EmptyShortCircuit ==
    NoMessagesFound =>
        /\ pc \in BeforeFilter
        /\ filtered_messages = <<>> /\ extended_messages = <<>> /\ participants = <<>>
        /\ overall.state = "none" /\ tasks = <<>>
        /\ pc \in {"exit", "returned"} =>
               /\ results.status = "error"
               /\ results.keys \cap {"message_count", "date_range", "text_summaries"} = {}
               /\ results.total = 0 /\ results.filtered = 0 /\ results.with_context = 0
               /\ results.date_range = [earliest |-> PyNone, latest |-> PyNone]
               /\ results.overall_summary = PyNone /\ results.by_participant = <<>>

\* C12 witness: a run with summaries asked for, whose history holds only
\* messages without text, has returned the error result
C12_Witness ==
    /\ pc = "returned"
    /\ summarize
    /\ chat.history # <<>>
    /\ messages = <<>>
    /\ results.status = "error"

(***************************************************************************)
(* SpecMain: the command.  main resolves the chat id, runs                 *)
(* analyze_messages, hands the result to format_results and write_output   *)
(* and ends; an exception of analyze_messages is reported and ends the     *)
(* process with status 1.                                                  *)
(***************************************************************************)
\* what a message of the history can be: a text message of a user or of a
\* sender that cannot be resolved, or a message without text
MainMessageKinds ==
    {[sender |-> snd, text |-> <<"x">>] : snd \in {UserBob, NoSender}}
    \cup {[sender |-> UserBob, text |-> NoStr]}

MainHistories(n) ==
    {[i \in 1..n |->
         TgMessage(n - i + 2, n - i + 2, kind[i].text, kind[i].sender, <<>>, NoFwd)] :
       kind \in [1..n -> MainMessageKinds]}

MainChats(n) ==
    {[history |-> h, raises |-> r] : h \in MainHistories(n), r \in {b \in BOOLEAN : b => n = 0}}

\* -c/--chat-id and the configured default: each given or not
ChatIdArg == {PyNone, PyStr(<<"-", "1", "0", "0", "1">>)}
ChatIdDefault == {PyNone, PyStr(<<"-", "1", "0", "0", "2">>)}

\* line 349
NoChatIdLine == <<"E", "r", "r", "o", "r", ":", " ", "N", "o", " ", "c", "h", "a", "t", " ", "I", "D">>
\* line 370
ErrorLine(e) == <<"E", "r", "r", "o", "r", ":", " ">> \o e
\* str(e) of the exception client.start() raises
StartError == <<"c", "o", "n", "n">>

\* utils/formatters.py: format_results serializes the result it is given,
\* whatever its status, and write_output writes that text out
format_results(r) == <<r.status>>
write_output(output, text) == Append(output, text)

InitMain ==
    /\ pc = "main"
    /\ \E n \in 0..MaxMsgs : chat \in MainChats(n)
    /\ target_users \in TargetLists(RunTargetPool)
    /\ summarize \in BOOLEAN
    /\ \E a \in ChatIdArg, c \in ChatIdDefault :
          process = [NoProcess EXCEPT !.args_chat_id = a, !.TELEGRAM_CHANNEL_ID = c]
    /\ messages = <<>>
    /\ filtered_messages = <<>>
    /\ extended_messages = <<>>
    /\ participants = <<>>
    /\ all_messages_text = <<>>
    /\ tasks = <<>>
    /\ overall = NoCall
    /\ overall_summary = PyNone
    /\ participant_summaries = <<>>
    /\ completed = <<>>
    /\ results = NoResults
    /\ client = "new"

\* main.py lines 345-350
ResolveChatId ==
    /\ pc = "main"
    /\ LET id == IF process.args_chat_id # PyNone THEN process.args_chat_id
                 ELSE process.TELEGRAM_CHANNEL_ID
       IN IF id = PyNone
          THEN /\ process' = [process EXCEPT !.stdout = Append(@, NoChatIdLine),
                                             !.exit_status = <<1>>]
               /\ pc' = "exited"
          ELSE /\ process' = [process EXCEPT !.chat_id = id]
               /\ pc' = "start"
    /\ UNCHANGED <<chat, target_users, messages, filtered_messages, extended_messages,
                   participants, all_messages_text, tasks, summarize, overall,
                   overall_summary, participant_summaries, completed, results, client>>

\* main.py line 107, message_analyzer.py lines 44-47 and 53-56: client.start()
\* raises, so __aenter__ raises and neither the block nor __aexit__ runs
StartClientFails ==
    /\ pc = "start"
    /\ client' = "failed"
    /\ pc' = "raised"
    /\ UNCHANGED <<chat, target_users, messages, filtered_messages, extended_messages,
                   participants, all_messages_text, tasks, summarize, overall,
                   overall_summary, participant_summaries, completed, results, process>>

\* main.py lines 364-366, and the end of main: the process ends with status 0
FormatAndWrite ==
    /\ pc = "returned"
    /\ process' = [process EXCEPT !.output = write_output(@, format_results(results)),
                                  !.exit_status = <<0>>]
    /\ pc' = "exited"
    /\ UNCHANGED <<chat, target_users, messages, filtered_messages, extended_messages,
                   participants, all_messages_text, tasks, summarize, overall,
                   overall_summary, participant_summaries, completed, results, client>>

\* main.py lines 368-371
MainExcept ==
    /\ pc = "raised"
    /\ process' = [process EXCEPT !.stdout = Append(@, ErrorLine(StartError)),
                                  !.exit_status = <<1>>]
    /\ pc' = "exited"
    /\ UNCHANGED <<chat, target_users, messages, filtered_messages, extended_messages,
                   participants, all_messages_text, tasks, summarize, overall,
                   overall_summary, participant_summaries, completed, results, client>>

NextMain ==
    \/ ResolveChatId
    \/ StartClient
    \/ StartClientFails
    \/ FetchMessages
    \/ FilterAndExtend
    \/ OrganizeByParticipant
    \/ OverallRequest
    \/ OverallResponse
    \/ CreateTasks
    \/ \E i \in 1..Len(tasks) : StartTask(i)
    \/ \E i \in 1..Len(tasks) : CompleteTask(i)
    \/ CollectResults
    \/ CompileResults
    \/ ExitAnalyzer
    \/ FormatAndWrite
    \/ MainExcept

SpecMain == InitMain /\ [][NextMain]_vars

(***************************************************************************)
(* Claims about the command, checked under SpecMain.                       *)
(***************************************************************************)
Exited == pc = "exited"

\* an error line for the user is on the console
ErrorLinePrinted ==
    \E i \in 1..Len(process.stdout) :
        SubSeq(process.stdout[i], 1, 7) = <<"E", "r", "r", "o", "r", ":", " ">>

\* C13: the command ends with a non-zero status and an error line for the
\* user when no chat id is given by the argument or the configuration, and
\* also when the message source yields no message.
C13_NonZeroExitOnNoChatOrNoMessages ==
    Exited =>
        /\ (process.args_chat_id = PyNone /\ process.TELEGRAM_CHANNEL_ID = PyNone)
               => (process.exit_status # <<0>> /\ ErrorLinePrinted)
        /\ (process.chat_id # PyNone /\ NoMessagesFound)
               => (process.exit_status # <<0>> /\ ErrorLinePrinted)

(***************************************************************************)
(* SpecSummarizer: one call of a summarizer entry point,                   *)
(* generate_summary_with_ollama (main.py) or generate_summary_with_ai      *)
(* (model/ai_models.py), for every text placed in the template and every   *)
(* behaviour of the provider.                                              *)
(***************************************************************************)
TemplateChars == {"{", "}", "x"}
InsertedTexts(n) == [1..n -> TemplateChars]

\* the model argument: one name for each provider
ModelNames == {<<"c", "l", "a", "u", "d", "e", "-", "3">>, <<"l", "l", "a", "m", "a", "2">>}

\* ai_models.py line 41: model.startswith("claude")
StartsWithClaude(model) ==
    Len(model) >= 6 /\ SubSeq(model, 1, 6) = <<"c", "l", "a", "u", "d", "e">>

\* ai_models.py lines 37-62: the except branch logs and ends without a
\* return, so the call gives None; the Anthropic and the Ollama branch both
\* give the text of the response or raise into the except branch
generate_summary_with_ai(model, inserted, outcome) ==
    IF ~PromptFormats(inserted) THEN Returned(PyNone)
    ELSE IF outcome.kind = "raise" THEN Returned(PyNone)
    ELSE IF StartsWithClaude(model) THEN Returned(PyStr(outcome.s))
    ELSE Returned(PyStr(outcome.s))

InitSummarizer ==
    /\ pc = "summarizer"
    /\ \E n \in 0..MaxInserted : \E name \in InsertedTexts(n) :
          tasks = <<NewTask(name, <<>>)>>
    /\ chat = [history |-> <<>>, raises |-> FALSE]
    /\ target_users = NoTargets
    /\ messages = <<>>
    /\ filtered_messages = <<>>
    /\ extended_messages = <<>>
    /\ participants = <<>>
    /\ all_messages_text = <<>>
    /\ summarize = TRUE
    /\ overall = NoCall
    /\ overall_summary = PyNone
    /\ participant_summaries = <<>>
    /\ completed = <<>>
    /\ results = NoResults
    /\ client = "connected"
    /\ process = NoProcess

\* main.py lines 44-74: one call, to its return or to the exception it raises
CallOllama ==
    /\ pc = "summarizer"
    /\ \E outcome \in ProviderOutcomes :
         LET t == tasks[1]
             call == generate_summary_with_ollama(t.participant, outcome)
         IN /\ tasks' = <<[t EXCEPT !.state = "done", !.outcome = outcome,
                                    !.result = ProcessParticipantReturn(t.participant,
                                                                        call.value)]>>
            /\ pc' = IF call.raised THEN "ollama_raised" ELSE "ollama_returned"
    /\ UNCHANGED <<chat, target_users, messages, filtered_messages, extended_messages,
                   participants, all_messages_text, summarize, overall, overall_summary,
                   participant_summaries, completed, results, client, process>>

\* ai_models.py lines 20-62: one call, to its return or to the exception it raises
CallAi ==
    /\ pc = "summarizer"
    /\ \E outcome \in ProviderOutcomes, model \in ModelNames :
         LET t == tasks[1]
             call == generate_summary_with_ai(model, t.participant, outcome)
         IN /\ tasks' = <<[t EXCEPT !.state = "done", !.outcome = outcome,
                                    !.result = ProcessParticipantReturn(t.participant,
                                                                        call.value)]>>
            /\ pc' = IF call.raised THEN "ai_raised" ELSE "ai_returned"
    /\ UNCHANGED <<chat, target_users, messages, filtered_messages, extended_messages,
                   participants, all_messages_text, summarize, overall, overall_summary,
                   participant_summaries, completed, results, client, process>>

NextSummarizer == CallOllama \/ CallAi

SpecSummarizer == InitSummarizer /\ [][NextSummarizer]_vars

(***************************************************************************)
(* Claims about the summarizer entry points, checked under SpecSummarizer.  *)
(***************************************************************************)
\* the call failed inside: the template could not be formatted or the
\* provider raised
FailedInside(t) == ~PromptFormats(t.participant) \/ t.outcome.kind = "raise"

\* C14: a call of generate_summary_with_ollama or generate_summary_with_ai
\* never ends by raising, and when the formatting of the template or the
\* provider fails inside it the call returns a non-empty string, not None.
C14_SummarizersReturnErrorString ==
    pc \in {"ollama_returned", "ollama_raised", "ai_returned", "ai_raised"} =>
        /\ pc \in {"ollama_returned", "ai_returned"}
        /\ FailedInside(tasks[1]) =>
               /\ tasks[1].result.summary.k = "str"
               /\ tasks[1].result.summary.s # <<>>

(***************************************************************************)
(* Claims about the participant groups, checked under SpecAggregate.       *)
(***************************************************************************)
\* organize_by_participant has run on the extended list
Organized == pc \in {"compile", "exit", "returned"}

\* the sum of the lengths of the groups
RECURSIVE GroupSizes(_)
GroupSizes(d) == IF d = <<>> THEN 0 ELSE Len(Head(d).value) + GroupSizes(Tail(d))

\* C15: organize_by_participant puts every message of its list into exactly
\* one group, the group whose key is the message's sender_name as it stands
\* ("Unknown" for a sender that has no name); the sizes of the groups sum to
\* the length of the list, no group is empty and every group holds its
\* messages in the order of the list.
C15_PartitionBySenderName ==
    Organized =>
        /\ \A i, j \in 1..Len(participants) :
               participants[i].key = participants[j].key => i = j
        /\ \A i \in 1..Len(participants) :
               /\ participants[i].value # <<>>
               /\ participants[i].value =
                      SelectSeq(extended_messages,
                                LAMBDA m : m.sender_name = participants[i].key)
        /\ \A k \in 1..Len(extended_messages) :
               Cardinality({i \in 1..Len(participants) :
                               \E n \in 1..Len(participants[i].value) :
                                   participants[i].value[n] = extended_messages[k]}) = 1
        /\ GroupSizes(participants) = Len(extended_messages)

\* C15 witness: a list of three messages was organized into the group of
\* the unnamed sender and a group of two messages that are not neighbours
\* in the list
C15_Witness ==
    /\ Organized
    /\ Len(extended_messages) = 3
    /\ Len(participants) = 2
    /\ extended_messages[1].sender_name = extended_messages[3].sender_name
    /\ extended_messages[2].sender_name = <<"U", "n", "k", "n", "o", "w", "n">>
    /\ \E i \in 1..2 : participants[i].value = <<extended_messages[1], extended_messages[3]>>
    /\ \E i \in 1..2 : participants[i].key = <<"U", "n", "k", "n", "o", "w", "n">>

(***************************************************************************)
(* SpecLifecycle: the runs of analyze_messages with the ways its           *)
(* async with block can be left: by a return, by the failure of            *)
(* client.start(), and by the cancellation of the run while it awaits the  *)
(* fetch or the summarizer (an exception `except Exception` does not       *)
(* catch).                                                                 *)
(***************************************************************************)
InitLifecycle ==
    /\ pc = "start"
    /\ \E n \in 0..MaxMsgs : chat \in MainChats(n)
    /\ target_users \in TargetLists(RunTargetPool)
    /\ summarize \in BOOLEAN
    /\ messages = <<>>
    /\ filtered_messages = <<>>
    /\ extended_messages = <<>>
    /\ participants = <<>>
    /\ all_messages_text = <<>>
    /\ tasks = <<>>
    /\ overall = NoCall
    /\ overall_summary = PyNone
    /\ participant_summaries = <<>>
    /\ completed = <<>>
    /\ results = NoResults
    /\ client = "new"
    /\ process = NoProcess

\* the positions where analyze_messages is suspended in an await of its block
Awaiting == {"fetch", "overall", "gather"}

\* main.py lines 109 and 129: the run is cancelled while it awaits;
\* CancelledError passes the except Exception clauses and leaves the block
Cancel ==
    /\ pc \in Awaiting
    /\ pc' = "exit_raising"
    /\ UNCHANGED <<chat, target_users, messages, filtered_messages, extended_messages,
                   participants, all_messages_text, tasks, summarize, overall,
                   overall_summary, participant_summaries, completed, results, client,
                   process>>

NextLifecycle ==
    \/ StartClient
    \/ StartClientFails
    \/ FetchMessages
    \/ FilterAndExtend
    \/ OrganizeByParticipant
    \/ OverallRequest
    \/ OverallResponse
    \/ CreateTasks
    \/ \E i \in 1..Len(tasks) : StartTask(i)
    \/ \E i \in 1..Len(tasks) : CompleteTask(i)
    \/ CollectResults
    \/ CompileResults
    \/ Cancel
    \/ ExitAnalyzer

SpecLifecycle == InitLifecycle /\ [][NextLifecycle]_vars

(***************************************************************************)
(* Claims about the client, checked under SpecLifecycle.                   *)
(***************************************************************************)
\* analyze_messages is over
Left == pc \in {"returned", "raised"}

\* client.start() returned in this run
WasStarted == client \in {"connected", "disconnected"}

\* C16: when analyze_messages returns or raises after its client was
\* started, the client is disconnected: after a normal run, after the
\* short-circuit on no messages and after an exception that left the block
\* during the fetch or the summaries; and once the client is disconnected
\* the run is over, so that no fetch and no summarizer request follows.
C16_ClientReleasedOnEveryExit ==
    /\ (Left /\ WasStarted) => client = "disconnected"
    /\ client = "disconnected" =>
           /\ Left
           /\ ~ENABLED FetchMessages
           /\ ~ENABLED OverallRequest
           /\ ~ENABLED (\E i \in 1..Len(tasks) : StartTask(i))

\* C16 witness: a run was cancelled while summarizer requests were in
\* flight and has raised with its client disconnected
C16_Witness ==
    /\ pc = "raised"
    /\ client = "disconnected"
    /\ \E i \in 1..Len(tasks) : tasks[i].state = "awaiting"

====
